---- MODULE Spec2Model ----
(***************************************************************************)
(* Sprite-sheet animation player (src/main.js): frame resolution,         *)
(* normalization of the animation JSON, startup, animation selection and  *)
(* the frame-timed render loop.                                            *)
(*                                                                         *)
(* Encoding of JavaScript values                                           *)
(*   - a JSON object is a TLA+ record whose DOMAIN is the set of keys     *)
(*     that are present; an absent key and a null value behave alike      *)
(*     under `??`, so both are "key not in DOMAIN";                        *)
(*   - a number is an integer; a property whose JSON value is a number    *)
(*     with a fractional part (or not a number at all) is listed in the   *)
(*     object's "nonInteger" set, which is the only thing                  *)
(*     Number.isInteger can observe about it;                              *)
(*   - null / an array are [kind |-> "null"] / [kind |-> "array", ...].   *)
(***************************************************************************)
EXTENDS Integers, Sequences, FiniteSets, TLC

VARIABLES
    dom,                \* which required elements the page has: "ok" | "noCanvas" | "noStatus"
    sheetLoad,          \* loadSheet(): "idle" | "pending" | "ok" | "failed"
    jsonLoad,           \* loadAnimations(): "idle" | "pending" | "ok" | "failed"
    payload,            \* what cat-animations.json parses to
    phase,              \* position of init() / tick()
    animations,         \* state.animations: <<>> (null) or <<table>>
    activeAnimationKey, \* state.activeAnimationKey
    frameIndex,         \* state.frameIndex
    frameTimerMs,       \* state.frameTimerMs
    lastTimestamp,      \* state.lastTimestamp
    rafPending,         \* a requestAnimationFrame(tick) callback is queued
    status,             \* statusEl.textContent, by kind of message
    deltaMs,            \* tick's deltaMs of the tick in progress / last run
    entryIndex,         \* frameIndex when draw was last entered
    entryTimerMs,       \* frameTimerMs when draw was last entered
    call,               \* pure-function harness: the call being made
    ret                 \* pure-function harness: its result

vars == <<dom, sheetLoad, jsonLoad, payload, phase, animations,
          activeAnimationKey, frameIndex, frameTimerMs, lastTimestamp,
          rafPending, status, deltaMs, entryIndex, entryTimerMs, call, ret>>

(***************************************************************************)
(* Bounds                                                                  *)
(***************************************************************************)
MaxAnimations == 2
MaxTimestamp == 1250

(***************************************************************************)
(* JavaScript object helpers                                               *)
(***************************************************************************)
Null == "<null>"

Has(obj, f) == f \in DOMAIN obj

\* obj[f] ?? d
Coalesce(obj, f, d) == IF Has(obj, f) THEN obj[f] ELSE d

\* Number.isInteger(obj[f])
IsIntegerField(obj, f) ==
    /\ Has(obj, f)
    /\ ~(Has(obj, "nonInteger") /\ f \in obj["nonInteger"])

\* Property names every object literal inherits from Object.prototype; all of
\* them are functions, hence truthy.
ObjectPrototypeKeys == {"constructor", "toString"}

\* Keys that are canonical array indices, with their numeric value:
\* OrdinaryOwnPropertyKeys lists these first, in ascending numeric order.
IndexValue == [k \in {"7"} |-> 7]

IsIndexKey(k) == k \in DOMAIN IndexValue

RECURSIVE SortIndexKeys(_)
SortIndexKeys(S) ==
    IF S = {} THEN <<>>
    ELSE LET m == CHOOSE k \in S : \A o \in S : IndexValue[k] <= IndexValue[o]
         IN <<m>> \o SortIndexKeys(S \ {m})

\* Object.keys / Object.entries order of an object whose properties were
\* created in the order given by `declared`.
ObjectKeys(declared) ==
    LET idx == {declared[i] : i \in {j \in 1..Len(declared) : IsIndexKey(declared[j])}}
    IN SortIndexKeys(idx) \o SelectSeq(declared, LAMBDA k : ~IsIndexKey(k))

(***************************************************************************)
(* Frame resolver and normalizer                                           *)
(***************************************************************************)
NullValue == [kind |-> "null"]

ArrayValue(items) == [kind |-> "array", items |-> items]

isValidFrame(frame) == frame.w > 0 /\ frame.h > 0

\* buildFramesFromRow with the column counted from 1: the bug of using a
\* 1-based index in line 116.
buildFramesFromRowOffByOne(animation, defaults) ==
    LET frameWidth == Coalesce(animation, "frameWidth", defaults.frameWidth)
        frameHeight == Coalesce(animation, "frameHeight", defaults.frameHeight)
        startCol == Coalesce(animation, "startCol", 0)
    IN IF \/ ~IsIntegerField(animation, "row")
          \/ ~IsIntegerField(animation, "frameCount")
          \/ animation.frameCount < 1
          \/ frameWidth <= 0
          \/ frameHeight <= 0
       THEN NullValue
       ELSE LET sheetOffsetX == Coalesce(animation, "sheetOffsetX",
                                         Coalesce(defaults, "sheetOffsetX", 0))
                sheetOffsetY == Coalesce(animation, "sheetOffsetY",
                                         Coalesce(defaults, "sheetOffsetY", 0))
            IN ArrayValue([index \in 1..animation.frameCount |->
                   [x |-> sheetOffsetX + (startCol + index) * frameWidth,
                    y |-> sheetOffsetY + animation.row * frameHeight,
                    w |-> frameWidth,
                    h |-> frameHeight]])

buildFramesFromRow(animation, defaults) ==
    LET frameWidth == Coalesce(animation, "frameWidth", defaults.frameWidth)
        frameHeight == Coalesce(animation, "frameHeight", defaults.frameHeight)
        startCol == Coalesce(animation, "startCol", 0)
    IN IF \/ ~IsIntegerField(animation, "row")
          \/ ~IsIntegerField(animation, "frameCount")
          \/ animation.frameCount < 1
          \/ frameWidth <= 0
          \/ frameHeight <= 0
       THEN NullValue
       ELSE LET frameCount == animation.frameCount
                row == animation.row
                sheetOffsetX == Coalesce(animation, "sheetOffsetX",
                                         Coalesce(defaults, "sheetOffsetX", 0))
                sheetOffsetY == Coalesce(animation, "sheetOffsetY",
                                         Coalesce(defaults, "sheetOffsetY", 0))
            IN ArrayValue([index \in 1..frameCount |->
                   [x |-> sheetOffsetX + (startCol + (index - 1)) * frameWidth,
                    y |-> sheetOffsetY + row * frameHeight,
                    w |-> frameWidth,
                    h |-> frameHeight]])

BaseDefaults ==
    [frameDurationMs |-> 120, scale |-> 4, frameWidth |-> 32,
     frameHeight |-> 32, sheetOffsetX |-> 0, sheetOffsetY |-> 0]

\* { ...base, ...(data.defaults || {}) }
MergeDefaults(data) ==
    LET given == IF Has(data, "defaults") /\ data.defaults.kind = "object"
                 THEN data.defaults.fields
                 ELSE <<>>
    IN [f \in DOMAIN BaseDefaults |-> Coalesce(given, f, BaseDefaults[f])]

resolveFrames(animation, defaults) ==
    IF Has(animation, "frames")
    THEN ArrayValue(animation.frames)
    ELSE buildFramesFromRow(animation, defaults)

\* normalizeEntry without the `resolvedFrames.length === 0` test of line 146.
normalizeEntryAllowsEmpty(name, animation, defaults) ==
    LET resolvedFrames == resolveFrames(animation, defaults)
    IN IF resolvedFrames.kind # "array"
       THEN [ok |-> FALSE, error |-> "NeedsFrames", name |-> name]
       ELSE IF ~(\A i \in 1..Len(resolvedFrames.items) :
                    isValidFrame(resolvedFrames.items[i]))
       THEN [ok |-> FALSE, error |-> "InvalidFrameData", name |-> name]
       ELSE [ok |-> TRUE,
             entry |-> [frameDurationMs |->
                            Coalesce(animation, "frameDurationMs",
                                     defaults.frameDurationMs),
                        scale |-> Coalesce(animation, "scale", defaults.scale),
                        frames |-> resolvedFrames.items]]

\* Outcome of one iteration of the for loop of normalizeAnimations.
normalizeEntry(name, animation, defaults) ==
    LET resolvedFrames == resolveFrames(animation, defaults)
    IN IF resolvedFrames.kind # "array" \/ Len(resolvedFrames.items) = 0
       THEN [ok |-> FALSE, error |-> "NeedsFrames", name |-> name]
       ELSE IF ~(\A i \in 1..Len(resolvedFrames.items) :
                    isValidFrame(resolvedFrames.items[i]))
       THEN [ok |-> FALSE, error |-> "InvalidFrameData", name |-> name]
       ELSE [ok |-> TRUE,
             entry |-> [frameDurationMs |->
                            Coalesce(animation, "frameDurationMs",
                                     defaults.frameDurationMs),
                        scale |-> Coalesce(animation, "scale", defaults.scale),
                        frames |-> resolvedFrames.items]]

\* data.animations is a sequence of <<name, animation>> in declaration order.
DeclaredKeys(entries) == [i \in 1..Len(entries) |-> entries[i][1]]

AnimationOf(entries, name) ==
    entries[CHOOSE i \in 1..Len(entries) : entries[i][1] = name][2]

\* normalizeAnimations(data): the table, or the Error the for loop throws at
\* the first entry (in Object.entries order) that does not normalize.
normalizeAnimations(data) ==
    LET defaults == MergeDefaults(data)
        entries == data.animations.entries
        keys == ObjectKeys(DeclaredKeys(entries))
        outcome(i) == normalizeEntry(keys[i], AnimationOf(entries, keys[i]), defaults)
        failing == {i \in 1..Len(keys) : ~outcome(i).ok}
    IN IF failing # {}
       THEN LET first == CHOOSE i \in failing : \A j \in failing : i <= j
            IN outcome(first)
       ELSE [ok |-> TRUE,
             table |-> [defaults |-> defaults,
                        defaultAnimation |-> Coalesce(data, "defaultAnimation", Null),
                        keys |-> keys,
                        animations |-> [k \in {keys[i] : i \in 1..Len(keys)} |->
                            outcome(CHOOSE i \in 1..Len(keys) : keys[i] = k).entry]]]

\* validateAnimations(data): "ok" or the kind of Error thrown.
validateAnimations(data) ==
    IF data.kind # "object" THEN "MustBeObject"
    ELSE IF ~Has(data.fields, "animations") \/ data.fields.animations.kind # "object"
    THEN "NeedsAnimationsObject"
    ELSE IF Has(data.fields, "defaults")
            /\ data.fields.defaults.kind \notin {"object", "null"}
    THEN "DefaultsMustBeObject"
    ELSE "ok"

(***************************************************************************)
(* Lookups in state.animations.animations                                  *)
(***************************************************************************)
OwnKeys(table) == DOMAIN table.animations

\* table.animations[key] is truthy: an own entry, or a property inherited
\* from Object.prototype.
Truthy(table, key) == key \in OwnKeys(table) \/ key \in ObjectPrototypeKeys

\* animation.frames is an array (only own entries have frames).
HasFrames(table, key) == key \in OwnKeys(table)

FrameCount(table, key) ==
    IF HasFrames(table, key) THEN Len(table.animations[key].frames) ELSE 0

\* animation.frameDurationMs ?? state.animations.defaults.frameDurationMs
FrameDuration(table, key) ==
    IF key \in OwnKeys(table)
    THEN table.animations[key].frameDurationMs
    ELSE table.defaults.frameDurationMs
(***************************************************************************)
(* Contents cat-animations.json may have                                   *)
(***************************************************************************)
Rect(x, y, w, h) == [x |-> x, y |-> y, w |-> w, h |-> h]

AnimationNames == {"idle", "walk", "7"}

AnimationShapes ==
    { [row |-> 0, frameCount |-> 4, frameDurationMs |-> 100],
      [frames |-> <<Rect(0, 0, 32, 32)>>],
      [frames |-> <<Rect(0, 0, 32, 32), Rect(32, 0, 32, 32), Rect(64, 0, 32, 32)>>,
       frameDurationMs |-> 0],
      [frames |-> <<>>, row |-> 0, frameCount |-> 2],
      [row |-> 0, frameCount |-> 0] }

RECURSIVE EntrySeqs(_)
EntrySeqs(n) ==
    IF n = 0 THEN {<<>>}
    ELSE LET shorter == EntrySeqs(n - 1)
         IN shorter \cup
            {Append(es, <<name, shape>>) :
                es \in {e \in shorter : Len(e) = n - 1},
                name \in AnimationNames, shape \in AnimationShapes}

DistinctNames(es) ==
    \A i, j \in 1..Len(es) : es[i][1] = es[j][1] => i = j

AnimationsValues ==
    {[kind |-> "object", entries |-> es] :
        es \in {e \in EntrySeqs(MaxAnimations) : DistinctNames(e)}}

DefaultsValues ==
    { [kind |-> "object", fields |-> [frameDurationMs |-> 16]],
      [kind |-> "number"] }

DefaultAnimationValues == {"walk", "constructor", "ghost"}

ObjectPayloads ==
    {[animations |-> a] : a \in AnimationsValues}
    \cup {[animations |-> a, defaultAnimation |-> k] :
            a \in AnimationsValues, k \in DefaultAnimationValues}
    \cup {[animations |-> a, defaults |-> d] :
            a \in AnimationsValues, d \in DefaultsValues}
    \cup {[animations |-> [kind |-> "object", entries |-> <<>>],
           defaults |-> [kind |-> "object", fields |-> [frameDurationMs |-> 16]],
           defaultAnimation |-> k] : k \in DefaultAnimationValues}
    \cup {[animations |-> [kind |-> "number"]], [defaultAnimation |-> "walk"]}

Payloads ==
    {[kind |-> "object", fields |-> f] : f \in ObjectPayloads}
    \cup {[kind |-> "null"], [kind |-> "number"]}

FirstTimestamps == {1000}

Deltas == {0, 50, 250}

(***************************************************************************)
(* The program                                                             *)
(***************************************************************************)
NoCall == [fn |-> "none"]

NoRet == [done |-> FALSE]

Init ==
    /\ dom \in {"ok", "noCanvas", "noStatus"}
    /\ sheetLoad = "idle"
    /\ jsonLoad = "idle"
    /\ payload = [kind |-> "null"]
    /\ phase = "start"
    /\ animations = <<>>
    /\ activeAnimationKey = Null
    /\ frameIndex = 0
    /\ frameTimerMs = 0
    /\ lastTimestamp = 0
    /\ rafPending = FALSE
    /\ status = <<"">>
    /\ deltaMs = 0
    /\ entryIndex = 0
    /\ entryTimerMs = 0
    /\ call = NoCall
    /\ ret = NoRet

harness == <<call, ret>>

playback == <<activeAnimationKey, frameIndex, frameTimerMs>>

ghost == <<deltaMs, entryIndex, entryTimerMs>>

\* setStatus(message)
setStatus(message) ==
    status' = IF dom = "noStatus" THEN status ELSE message

\* setAnimation without the `state.frameTimerMs = 0` of line 51.
setAnimationKeepsTimer(table, key) ==
    IF table = <<>> \/ ~Truthy(table[1], key)
    THEN UNCHANGED <<playback, status>>
    ELSE /\ activeAnimationKey' = key
         /\ frameIndex' = 0
         /\ UNCHANGED frameTimerMs
         /\ setStatus(<<"Current animation", key>>)

\* setAnimation(key) against the table `table` (<<>> when state.animations is
\* null).
setAnimation(table, key) ==
    IF table = <<>> \/ ~Truthy(table[1], key)
    THEN UNCHANGED <<playback, status>>
    ELSE /\ activeAnimationKey' = key
         /\ frameIndex' = 0
         /\ frameTimerMs' = 0
         /\ setStatus(<<"Current animation", key>>)

\* init() up to its await.
InitStart ==
    /\ phase = "start"
    /\ IF dom # "ok"
       THEN /\ phase' = "failed"
            /\ setStatus(<<"Error", "MissingDom">>)
            /\ UNCHANGED <<sheetLoad, jsonLoad>>
       ELSE /\ phase' = "loading"
            /\ setStatus(<<"Loading">>)
            /\ sheetLoad' = "pending"
            /\ jsonLoad' = "pending"
    /\ UNCHANGED <<dom, payload, animations, playback, lastTimestamp,
                   rafPending, ghost, harness>>

SheetLoaded ==
    /\ sheetLoad = "pending"
    /\ sheetLoad' = "ok"
    /\ UNCHANGED <<dom, jsonLoad, payload, phase, animations, playback,
                   lastTimestamp, rafPending, status, ghost, harness>>

SheetError ==
    /\ sheetLoad = "pending"
    /\ sheetLoad' = "failed"
    /\ UNCHANGED <<dom, jsonLoad, payload, phase, animations, playback,
                   lastTimestamp, rafPending, status, ghost, harness>>

AnimationsLoaded ==
    /\ jsonLoad = "pending"
    /\ jsonLoad' = "ok"
    /\ payload' \in Payloads
    /\ UNCHANGED <<dom, sheetLoad, phase, animations, playback,
                   lastTimestamp, rafPending, status, ghost, harness>>

AnimationsError ==
    /\ jsonLoad = "pending"
    /\ jsonLoad' = "failed"
    /\ UNCHANGED <<dom, sheetLoad, payload, phase, animations, playback,
                   lastTimestamp, rafPending, status, ghost, harness>>

\* Promise.all rejects: init's catch.
InitRejected ==
    /\ phase = "loading"
    /\ sheetLoad = "failed" \/ jsonLoad = "failed"
    /\ phase' = "failed"
    /\ setStatus(<<"Error", IF sheetLoad = "failed"
                            THEN "SheetLoad" ELSE "AnimationsLoad">>)
    /\ UNCHANGED <<dom, sheetLoad, jsonLoad, payload, animations, playback,
                   lastTimestamp, rafPending, ghost, harness>>

\* const startAnimation = ... (undefined is Null)
startAnimationOf(table) ==
    IF table.defaultAnimation # Null /\ Truthy(table, table.defaultAnimation)
    THEN table.defaultAnimation
    ELSE IF Len(table.keys) > 0 THEN table.keys[1] ELSE Null

\* init() after its await, to its end.
InitResume ==
    /\ phase = "loading"
    /\ sheetLoad = "ok"
    /\ jsonLoad = "ok"
    /\ LET checked == validateAnimations(payload)
       IN IF checked # "ok"
          THEN /\ phase' = "failed"
               /\ setStatus(<<"Error", checked>>)
               /\ UNCHANGED <<animations, playback, rafPending>>
          ELSE LET normalized == normalizeAnimations(payload.fields)
               IN IF ~normalized.ok
                  THEN /\ phase' = "failed"
                       /\ setStatus(<<"Error", normalized.error, normalized.name>>)
                       /\ UNCHANGED <<animations, playback, rafPending>>
                  ELSE LET startAnimation == startAnimationOf(normalized.table)
                       IN /\ animations' = <<normalized.table>>
                          /\ IF startAnimation = Null
                             THEN /\ phase' = "failed"
                                  /\ setStatus(<<"Error", "NoAnimations">>)
                                  /\ UNCHANGED <<playback, rafPending>>
                             ELSE /\ phase' = "running"
                                  /\ setAnimation(<<normalized.table>>, startAnimation)
                                  /\ rafPending' = TRUE
    /\ UNCHANGED <<dom, sheetLoad, jsonLoad, payload, lastTimestamp, ghost, harness>>

KeyUniverse == AnimationNames \cup ObjectPrototypeKeys \cup {"ghost"}

\* A call of setAnimation(key) once init has built the controls: a control
\* button's click handler, or any other caller of the function.  It cannot
\* run inside a tick.
SetAnimation(key) ==
    /\ phase \in {"running", "crashed"}
    /\ setAnimation(animations, key)
    /\ UNCHANGED <<dom, sheetLoad, jsonLoad, payload, phase, animations,
                   lastTimestamp, rafPending, ghost, harness>>
\* tick(timestamp) from its entry to the while loop of draw (lines 214-180).
TickBegin(timestamp) ==
    /\ phase = "running"
    /\ rafPending
    /\ timestamp <= MaxTimestamp
    /\ LET table == animations[1]
           delta == IF lastTimestamp # 0 THEN timestamp - lastTimestamp ELSE 16
       IN /\ deltaMs' = delta
          /\ lastTimestamp' = timestamp
          /\ entryIndex' = frameIndex
          /\ entryTimerMs' = frameTimerMs
          /\ IF ~Truthy(table, activeAnimationKey)
             THEN \* draw returns early; tick requests the next frame
                  /\ UNCHANGED <<phase, rafPending, frameTimerMs>>
             ELSE /\ phase' = "loop"
                  /\ rafPending' = FALSE
                  /\ frameTimerMs' = frameTimerMs + delta
    /\ UNCHANGED <<dom, sheetLoad, jsonLoad, payload, animations,
                   activeAnimationKey, frameIndex, status, harness>>

\* The loop body with the timer reset instead of reduced by one frame
\* duration (`state.frameTimerMs = 0` for line 183).
LoopStepResetsTimer ==
    /\ phase = "loop"
    /\ LET table == animations[1]
           frameDurationMs == FrameDuration(table, activeAnimationKey)
       IN /\ frameTimerMs >= frameDurationMs
          /\ frameTimerMs' = 0
          /\ IF HasFrames(table, activeAnimationKey)
             THEN /\ frameIndex' = (frameIndex + 1) % FrameCount(table, activeAnimationKey)
                  /\ UNCHANGED phase
             ELSE /\ phase' = "crashed"
                  /\ UNCHANGED frameIndex
    /\ UNCHANGED <<dom, sheetLoad, jsonLoad, payload, animations,
                   activeAnimationKey, lastTimestamp, rafPending, status,
                   ghost, harness>>

\* One iteration of the while loop of draw.  Reading animation.frames.length
\* of a value that has no frames throws, which ends the render loop.
LoopStep ==
    /\ phase = "loop"
    /\ LET table == animations[1]
           frameDurationMs == FrameDuration(table, activeAnimationKey)
       IN /\ frameTimerMs >= frameDurationMs
          /\ frameTimerMs' = frameTimerMs - frameDurationMs
          /\ IF HasFrames(table, activeAnimationKey)
             THEN /\ frameIndex' = (frameIndex + 1) % FrameCount(table, activeAnimationKey)
                  /\ UNCHANGED phase
             ELSE /\ phase' = "crashed"
                  /\ UNCHANGED frameIndex
    /\ UNCHANGED <<dom, sheetLoad, jsonLoad, payload, animations,
                   activeAnimationKey, lastTimestamp, rafPending, status,
                   ghost, harness>>

\* The loop condition is false: getCurrentFrame, the drawImage call, and
\* tick's requestAnimationFrame(tick).
LoopExit ==
    /\ phase = "loop"
    /\ LET table == animations[1]
       IN /\ ~(frameTimerMs >= FrameDuration(table, activeAnimationKey))
          /\ IF HasFrames(table, activeAnimationKey)
             THEN /\ phase' = "running"
                  /\ rafPending' = TRUE
             ELSE /\ phase' = "crashed"
                  /\ UNCHANGED rafPending
    /\ UNCHANGED <<dom, sheetLoad, jsonLoad, payload, animations, playback,
                   lastTimestamp, status, ghost, harness>>

Timestamps ==
    IF lastTimestamp = 0 THEN FirstTimestamps
    ELSE {lastTimestamp + d : d \in Deltas}

Next ==
    \/ InitStart
    \/ SheetLoaded
    \/ SheetError
    \/ AnimationsLoaded
    \/ AnimationsError
    \/ InitRejected
    \/ InitResume
    \/ \E key \in KeyUniverse : SetAnimation(key)
    \/ \E timestamp \in Timestamps : TickBegin(timestamp)
    \/ LoopStep
    \/ LoopExit

Spec == Init /\ [][Next]_vars

\* The host runs a started tick to its end: the loop body and the loop exit
\* are ordinary synchronous code.
FairSpec == Spec /\ WF_vars(LoopStep) /\ WF_vars(LoopExit)
(***************************************************************************)
(* The frame resolver and the normalizer as pure functions: FunctionSpec   *)
(* draws one call from a bounded set of arguments and applies it.          *)
(***************************************************************************)
Fractional == {{}, {"row"}, {"frameCount"}}

GridAnimations ==
    { row @@ count @@ col @@ width @@ height @@ offX @@ offY @@ frac :
        row \in {<<>>, [row |-> 0], [row |-> 2]},
        count \in {<<>>} \cup {[frameCount |-> n] : n \in {-1, 0, 1, 3}},
        col \in {<<>>, [startCol |-> 2]},
        width \in {<<>>, [frameWidth |-> 16], [frameWidth |-> 0]},
        height \in {<<>>, [frameHeight |-> 48]},
        offX \in {<<>>, [sheetOffsetX |-> 5]},
        offY \in {<<>>, [sheetOffsetY |-> 3]},
        frac \in {IF f = {} THEN <<>> ELSE [nonInteger |-> f] : f \in Fractional} }

FramesValues ==
    { <<>>,
      [frames |-> <<>>],
      [frames |-> <<Rect(0, 0, 32, 32), Rect(32, 0, 32, 32)>>],
      [frames |-> <<Rect(0, 0, 32, 32), Rect(32, 0, 0, 32)>>] }

DurationValues == {<<>>, [frameDurationMs |-> 100], [frameDurationMs |-> 0]}

FunctionDefaults ==
    { <<>>,
      [defaults |-> [kind |-> "object",
                     fields |-> [frameWidth |-> 8, sheetOffsetX |-> 7,
                                 sheetOffsetY |-> 9, frameDurationMs |-> 50]]],
      [defaults |-> [kind |-> "null"]] }

BuildCalls ==
    {[fn |-> "buildFramesFromRow", animation |-> a, defaults |-> MergeDefaults(d)] :
        a \in GridAnimations, d \in FunctionDefaults}

\* One animation of any shape, or two animations of which the second is drawn
\* from the shapes of the program's payloads.
NormalizeCalls ==
    {[fn |-> "normalizeAnimations",
      data |-> d @@ [animations |-> [kind |-> "object",
                                    entries |-> <<<<name, g @@ f @@ t>>>>]]] :
        name \in {"idle"},
        g \in {a \in GridAnimations :
                 DOMAIN a \subseteq {"row", "frameCount", "nonInteger", "frameWidth"}},
        f \in FramesValues, t \in DurationValues, d \in FunctionDefaults}
    \cup
    {[fn |-> "normalizeAnimations",
      data |-> [animations |-> [kind |-> "object",
                                entries |-> <<<<n1, g @@ f>>, <<n2, shape>>>>]]] :
        n1 \in {"walk"}, n2 \in {"idle", "7"},
        g \in {a \in GridAnimations :
                 DOMAIN a \subseteq {"row", "frameCount", "nonInteger"}},
        f \in FramesValues, shape \in AnimationShapes}

FunctionInit ==
    /\ dom = "ok"
    /\ sheetLoad = "idle"
    /\ jsonLoad = "idle"
    /\ payload = [kind |-> "null"]
    /\ phase = "start"
    /\ animations = <<>>
    /\ activeAnimationKey = Null
    /\ frameIndex = 0
    /\ frameTimerMs = 0
    /\ lastTimestamp = 0
    /\ rafPending = FALSE
    /\ status = <<"">>
    /\ deltaMs = 0
    /\ entryIndex = 0
    /\ entryTimerMs = 0
    /\ call \in BuildCalls \cup NormalizeCalls
    /\ ret = NoRet

program == <<dom, sheetLoad, jsonLoad, payload, phase, animations, playback,
             lastTimestamp, rafPending, status, ghost>>

CallBuildFramesFromRow ==
    /\ call.fn = "buildFramesFromRow"
    /\ ~ret.done
    /\ ret' = [done |-> TRUE,
               value |-> buildFramesFromRow(call.animation, call.defaults)]
    /\ UNCHANGED <<program, call>>

CallNormalizeAnimations ==
    /\ call.fn = "normalizeAnimations"
    /\ ~ret.done
    /\ ret' = [done |-> TRUE, value |-> normalizeAnimations(call.data)]
    /\ UNCHANGED <<program, call>>

FunctionNext ==
    \/ CallBuildFramesFromRow
    \/ CallNormalizeAnimations

FunctionSpec == FunctionInit /\ [][FunctionNext]_vars
(***************************************************************************)
(* Properties                                                              *)
(***************************************************************************)
Started == phase \in {"running", "loop", "crashed"}

EntriesOf(data) == data.animations.entries

\* C1: in every state after startup the playback frame index satisfies
\* 0 <= frameIndex < frameCount of the currently active animation.
C1_FrameIndexInRange ==
    Started =>
        /\ 0 <= frameIndex
        /\ frameIndex < FrameCount(animations[1], activeAnimationKey)

\* C2: setAnimation(key) with a key that is not one of the table's own
\* animation keys changes none of activeAnimationKey, frameIndex, frameTimerMs.
C2_UnknownKeyIsNoOp ==
    [][\A key \in KeyUniverse :
         (SetAnimation(key) /\ key \notin OwnKeys(animations[1]))
            => UNCHANGED <<activeAnimationKey, frameIndex, frameTimerMs>>]_vars

\* C3: setAnimation(key) with a key of the table, from any playback state,
\* ends with activeAnimationKey = key, frameIndex = 0 and frameTimerMs = 0.
C3_ValidKeyResets ==
    [][\A key \in KeyUniverse :
         (SetAnimation(key) /\ key \in OwnKeys(animations[1]))
            => /\ activeAnimationKey' = key
               /\ frameIndex' = 0
               /\ frameTimerMs' = 0]_vars

\* A switch to another animation than the start one, made after a tick that
\* began on a later frame.
C3_Witness ==
    /\ phase = "running"
    /\ activeAnimationKey \in OwnKeys(animations[1])
    /\ activeAnimationKey # startAnimationOf(animations[1])
    /\ entryIndex > 0
    /\ entryTimerMs + deltaMs > 0
    /\ frameIndex = 0
    /\ frameTimerMs = 0

\* C4: when the frame-advance loop of a tick is left, for an animation with
\* frame duration d > 0 and n frames, entered at frameIndex = i and
\* frameTimerMs = t (0 <= t < d) with elapsed time e >= 0:
\* frameTimerMs = (t + e) mod d and frameIndex = (i + (t + e) div d) mod n.
C4_AdvanceAccountsForElapsed ==
    (phase = "loop" /\ HasFrames(animations[1], activeAnimationKey)) =>
        LET d == FrameDuration(animations[1], activeAnimationKey)
            n == FrameCount(animations[1], activeAnimationKey)
            total == entryTimerMs + deltaMs
        IN (/\ d > 0
            /\ 0 <= entryTimerMs
            /\ entryTimerMs < d
            /\ deltaMs >= 0
            /\ ~(frameTimerMs >= d))
           => /\ frameTimerMs = total % d
              /\ frameIndex = (entryIndex + (total \div d)) % n
              /\ 0 <= frameTimerMs
              /\ frameTimerMs < d

\* The spec's example: d = 100, n = 4, i = 0, t = 0, e = 250.
C4_Witness ==
    /\ phase = "loop"
    /\ HasFrames(animations[1], activeAnimationKey)
    /\ FrameDuration(animations[1], activeAnimationKey) = 100
    /\ FrameCount(animations[1], activeAnimationKey) = 4
    /\ entryIndex = 0
    /\ entryTimerMs = 0
    /\ deltaMs = 250
    /\ frameIndex = 2
    /\ frameTimerMs = 50

\* C5: when init has built the table, the initial active key is the config's
\* defaultAnimation if that names a declared animation, otherwise the first
\* animation key in declaration order; with no animations startup fails and no
\* animation becomes active.
C5_InitialKey ==
    [][(InitResume /\ animations' # <<>>) =>
         LET declared == DeclaredKeys(EntriesOf(payload.fields))
             names == {declared[i] : i \in 1..Len(declared)}
             default == Coalesce(payload.fields, "defaultAnimation", Null)
         IN IF default \in names
            THEN phase' = "running" /\ activeAnimationKey' = default
            ELSE IF Len(declared) > 0
            THEN phase' = "running" /\ activeAnimationKey' = declared[1]
            ELSE phase' = "failed" /\ activeAnimationKey' = Null]_vars

\* C6: a tick is scheduled or run only after both loads succeeded and the
\* config validated and normalized with at least one animation; after a
\* failed startup a status message is set and no tick is scheduled or run.
C6_LoopOnlyAfterGoodStartup ==
    /\ (rafPending \/ lastTimestamp # 0 \/ Started) =>
          /\ sheetLoad = "ok"
          /\ jsonLoad = "ok"
          /\ validateAnimations(payload) = "ok"
          /\ normalizeAnimations(payload.fields).ok
          /\ Len(EntriesOf(payload.fields)) >= 1
    /\ (phase = "failed" /\ dom = "ok") =>
          /\ status[1] = "Error"
          /\ ~rafPending
          /\ lastTimestamp = 0

\* C7: on every tick the while loop of draw exits after finitely many
\* iterations, whatever frameDurationMs the accepted config supplies.
C7_LoopTerminates == (phase = "loop") ~> (phase # "loop")

\* What the claims call an animation with no resolvable frames.
Unresolvable(a) ==
    \/ /\ Has(a, "frames")
       /\ Len(a.frames) = 0
       /\ ~Has(a, "row")
       /\ ~Has(a, "frameCount")
    \/ /\ ~Has(a, "frames")
       /\ \/ ~IsIntegerField(a, "frameCount")
          \/ a.frameCount < 1
          \/ ~IsIntegerField(a, "row")

\* An animation that cannot be normalized for any reason.
Offending(a, d) ==
    \/ Unresolvable(a)
    \/ /\ Has(a, "frames")
       /\ \/ Len(a.frames) = 0
          \/ \E i \in 1..Len(a.frames) : a.frames[i].w <= 0 \/ a.frames[i].h <= 0
    \/ /\ ~Has(a, "frames")
       /\ \/ Coalesce(a, "frameWidth", d.frameWidth) <= 0
          \/ Coalesce(a, "frameHeight", d.frameHeight) <= 0

\* C8: normalizeAnimations returns no table, and throws an error naming an
\* offending animation, whenever some animation has no resolvable frames; the
\* error for an unresolvable animation is the "needs frames" one.
C8_UnresolvableFails ==
    (/\ call.fn = "normalizeAnimations"
     /\ ret.done
     /\ \E i \in 1..Len(EntriesOf(call.data)) : Unresolvable(EntriesOf(call.data)[i][2]))
    => /\ ~ret.value.ok
       /\ \E i \in 1..Len(EntriesOf(call.data)) :
            LET e == EntriesOf(call.data)[i]
            IN /\ e[1] = ret.value.name
               /\ Offending(e[2], MergeDefaults(call.data))
               /\ Unresolvable(e[2]) => ret.value.error = "NeedsFrames"

\* A valid animation followed by a grid spec with frameCount = 0.
C8_Witness ==
    /\ call.fn = "normalizeAnimations"
    /\ ret.done
    /\ Len(EntriesOf(call.data)) = 2
    /\ ~Offending(EntriesOf(call.data)[1][2], MergeDefaults(call.data))
    /\ EntriesOf(call.data)[2][2] = [row |-> 0, frameCount |-> 0]
    /\ ~ret.value.ok
    /\ ret.value.name = EntriesOf(call.data)[2][1]

ValidGridSpec(a, d) ==
    /\ IsIntegerField(a, "row")
    /\ IsIntegerField(a, "frameCount")
    /\ a.frameCount >= 1
    /\ Coalesce(a, "frameWidth", d.frameWidth) > 0
    /\ Coalesce(a, "frameHeight", d.frameHeight) > 0

\* C9: for a valid grid spec with frameCount = n, buildFramesFromRow returns
\* exactly n rectangles, rectangle i (0-indexed) being
\* x = sheetOffsetX + (startCol + i) * frameWidth, y = sheetOffsetY + row *
\* frameHeight, w = frameWidth, h = frameHeight, with startCol defaulting to 0
\* and the sizes and offsets to the defaults; x grows by frameWidth per index
\* and y is constant.
C9_GridFrames ==
    (/\ call.fn = "buildFramesFromRow"
     /\ ret.done
     /\ ValidGridSpec(call.animation, call.defaults))
    => LET a == call.animation
           d == call.defaults
           n == a.frameCount
           fw == IF Has(a, "frameWidth") THEN a.frameWidth ELSE d.frameWidth
           fh == IF Has(a, "frameHeight") THEN a.frameHeight ELSE d.frameHeight
           sc == IF Has(a, "startCol") THEN a.startCol ELSE 0
           ox == IF Has(a, "sheetOffsetX") THEN a.sheetOffsetX ELSE d.sheetOffsetX
           oy == IF Has(a, "sheetOffsetY") THEN a.sheetOffsetY ELSE d.sheetOffsetY
           out == ret.value
       IN /\ out.kind = "array"
          /\ Len(out.items) = n
          /\ \A i \in 0..(n - 1) :
                out.items[i + 1] = Rect(ox + (sc + i) * fw, oy + a.row * fh, fw, fh)
          /\ \A i \in 1..(n - 1) :
                /\ out.items[i + 1].x = out.items[i].x + fw
                /\ out.items[i + 1].y = out.items[i].y

\* Three frames from column 2 of row 2, every size and offset defaulted.
C9_Witness ==
    /\ call.fn = "buildFramesFromRow"
    /\ ret.done
    /\ call.animation = [row |-> 2, frameCount |-> 3, startCol |-> 2]
    /\ call.defaults.frameWidth = 8
    /\ ret.value.kind = "array"
    /\ Len(ret.value.items) = 3
    /\ ret.value.items[3] = Rect(7 + 4 * 8, 9 + 2 * 32, 8, 32)

\* C10: an animation declared with frames: [] together with valid grid
\* parameters is normalized successfully into an entry with exactly frameCount
\* grid-derived frames.
C10_EmptyFramesFallsBackToGrid ==
    (/\ call.fn = "normalizeAnimations"
     /\ ret.done
     /\ Len(EntriesOf(call.data)) = 1
     /\ Has(EntriesOf(call.data)[1][2], "frames")
     /\ Len(EntriesOf(call.data)[1][2].frames) = 0
     /\ ValidGridSpec(EntriesOf(call.data)[1][2], MergeDefaults(call.data)))
    => LET e == EntriesOf(call.data)[1]
       IN /\ ret.value.ok
          /\ Len(ret.value.table.animations[e[1]].frames) = e[2].frameCount
====
